---- MODULE Spec2Model ----
(***************************************************************************)
(* Subscription CRUD service: service layer (internal/service), the        *)
(* repository (internal/repository) over the subscriptions table, and the  *)
(* error mapping of the HTTP handlers (internal/handler).                  *)
(*                                                                         *)
(* Strings are sequences of symbols.  Data that the code inspects          *)
(* character by character (dates, UUIDs, names) is spelled one character   *)
(* per symbol; a literal of the program text that is only ever             *)
(* concatenated or compared as a whole is a single symbol.                 *)
(***************************************************************************)
EXTENDS Integers, Sequences, FiniteSets, TLC

VARIABLES store, created, updates, pc, loc, resp

vars == <<store, created, updates, pc, loc, resp>>

(* ---------------------------- bounds ----------------------------------- *)
MaxCreates == 1
MaxUpdates == 2
MaxRows == 2
Procs == {1, 2}

(* ---------------------------- characters ------------------------------- *)
DigitChars == <<"0", "1", "2", "3", "4", "5", "6", "7", "8", "9">>
HexLower == <<"0", "1", "2", "3", "4", "5", "6", "7", "8", "9", "a", "b", "c", "d", "e", "f">>
HexUpper == <<"0", "1", "2", "3", "4", "5", "6", "7", "8", "9", "A", "B", "C", "D", "E", "F">>

\* the value of a digit character, as a table
DigitTable == [c \in {DigitChars[i] : i \in 1..10} |-> (CHOOSE i \in 1..10 : DigitChars[i] = c) - 1]
\* xvalues of the uuid package: the value of a hex character of either case
HexTable ==
    [c \in {HexLower[i] : i \in 1..16} \cup {HexUpper[i] : i \in 1..16} |->
        (CHOOSE i \in 1..16 : HexLower[i] = c \/ HexUpper[i] = c) - 1]

IsDigit(c) == c \in DOMAIN DigitTable
DigitVal(c) == DigitTable[c]
IsHex(c) == c \in DOMAIN HexTable
HexVal(c) == HexTable[c]

Rep(c, n) == [i \in 1..n |-> c]

RECURSIVE Atoi(_)
Atoi(s) == IF s = <<>> THEN 0 ELSE 10 * Atoi(SubSeq(s, 1, Len(s) - 1)) + DigitVal(s[Len(s)])

AllDigits(s) == \A i \in 1..Len(s) : IsDigit(s[i])

Pad2(n) == <<DigitChars[((n \div 10) % 10) + 1], DigitChars[(n % 10) + 1]>>
Pad4(n) == <<DigitChars[((n \div 1000) % 10) + 1], DigitChars[((n \div 100) % 10) + 1]>> \o Pad2(n % 100)

HasPrefix(s, prefix) == Len(s) >= Len(prefix) /\ SubSeq(s, 1, Len(prefix)) = prefix

IsSpace(c) == c \in {" ", "\t", "\n", "\r"}
RECURSIVE TrimLeft(_)
TrimLeft(s) == IF s # <<>> /\ IsSpace(Head(s)) THEN TrimLeft(Tail(s)) ELSE s
RECURSIVE TrimRight(_)
TrimRight(s) == IF s # <<>> /\ IsSpace(s[Len(s)]) THEN TrimRight(SubSeq(s, 1, Len(s) - 1)) ELSE s
TrimSpace(s) == TrimRight(TrimLeft(s))

(* ---------------------------- errors ----------------------------------- *)
(* An error is its message and the set of sentinels errors.Is finds in its *)
(* chain of wrapped errors.                                                *)
NoErr == [msg |-> <<>>, is |-> {}, nil |-> TRUE]
ErrValidation == [msg |-> <<"validation error">>, is |-> {"ErrValidation"}, nil |-> FALSE]
ErrNotFound == [msg |-> <<"resource not found">>, is |-> {"ErrNotFound"}, nil |-> FALSE]
ErrNoRows == [msg |-> <<"sql: no rows in result set">>, is |-> {"sql.ErrNoRows"}, nil |-> FALSE]
ErrDriver == [msg |-> <<"driver: bad connection">>, is |-> {}, nil |-> FALSE]

ErrorsIs(err, target) == ~err.nil /\ target.is \subseteq err.is /\ target.is # {}

\* fmt.Errorf(prefix + ": %w", err)
Wrap(prefix, err) == [msg |-> <<prefix, ": ">> \o err.msg, is |-> err.is, nil |-> FALSE]

\* fmt.Errorf("%w: %s", ErrValidation, message)
ValidationError(message) ==
    [msg |-> ErrValidation.msg \o <<": ">> \o message, is |-> ErrValidation.is, nil |-> FALSE]

(* ---------------------------- dates ------------------------------------ *)
Date(y, m, d) == [y |-> y, m |-> m, d |-> d]
ZeroTime == Date(1, 1, 1)

\* a variant that takes any two digits as the month
TimeParseMonthYearAnyMonth(value) ==
    IF Len(value) < 2 \/ ~IsDigit(value[1]) \/ ~IsDigit(value[2])
    THEN [ok |-> FALSE, t |-> ZeroTime]
    ELSE LET month == Atoi(SubSeq(value, 1, 2))
             rest == SubSeq(value, 3, Len(value))
         IN IF ~HasPrefix(rest, <<"-">>) THEN [ok |-> FALSE, t |-> ZeroTime]
            ELSE LET yv == Tail(rest)
                 IN IF Len(yv) # 4 \/ ~AllDigits(yv) THEN [ok |-> FALSE, t |-> ZeroTime]
                    ELSE [ok |-> TRUE, t |-> Date(Atoi(yv), month, 1)]

\* time.Parse("01-2006", value): two-digit month, "-", four-digit year, nothing after.
TimeParseMonthYear(value) ==
    IF Len(value) < 2 \/ ~IsDigit(value[1]) \/ ~IsDigit(value[2])
    THEN [ok |-> FALSE, t |-> ZeroTime]
    ELSE LET month == Atoi(SubSeq(value, 1, 2))
             rest == SubSeq(value, 3, Len(value))
         IN IF month < 1 \/ month > 12 THEN [ok |-> FALSE, t |-> ZeroTime]
            ELSE IF ~HasPrefix(rest, <<"-">>) THEN [ok |-> FALSE, t |-> ZeroTime]
            ELSE LET yv == Tail(rest)
                 IN IF Len(yv) < 4 \/ ~IsDigit(yv[1]) THEN [ok |-> FALSE, t |-> ZeroTime]
                    ELSE IF ~AllDigits(SubSeq(yv, 1, 4)) THEN [ok |-> FALSE, t |-> ZeroTime]
                    ELSE IF Len(yv) > 4 THEN [ok |-> FALSE, t |-> ZeroTime]
                    ELSE [ok |-> TRUE, t |-> Date(Atoi(SubSeq(yv, 1, 4)), month, 1)]

ParseMonthYear(fieldName, value) ==
    LET r == TimeParseMonthYear(value)
    IN IF ~r.ok
       THEN [t |-> ZeroTime,
             err |-> ValidationError(<<"incorrect format ">> \o fieldName \o <<" (expected MM-YYYY)">>)]
       ELSE [t |-> r.t, err |-> NoErr]

\* a variant with the day and the month exchanged in the layout ("2006-02-01")
FormatISODayMonth(t) == Pad4(t.y) \o <<"-">> \o Pad2(t.d) \o <<"-">> \o Pad2(t.m)

\* t.Format("2006-01-02")
FormatISO(t) == Pad4(t.y) \o <<"-">> \o Pad2(t.m) \o <<"-">> \o Pad2(t.d)

\* the cast of a bound text parameter to the DATE column type
DateFromText(s) == Date(Atoi(SubSeq(s, 1, 4)), Atoi(SubSeq(s, 6, 7)), Atoi(SubSeq(s, 9, 10)))

DateOrd(t) == (t.y * 12 + (t.m - 1)) * 31 + (t.d - 1)
\* a variant that also holds of equal times
AfterOrEqual(a, b) == DateOrd(a) >= DateOrd(b)

After(a, b) == DateOrd(a) > DateOrd(b)

(* ---------------------------- UUIDs ------------------------------------ *)
\* uuid.Parse: the value is the 32 hex digits, case folded.
UuidHexOffsets == <<1, 2, 3, 4, 5, 6, 7, 8, 10, 11, 12, 13, 15, 16, 17, 18,
                    20, 21, 22, 23, 25, 26, 27, 28, 29, 30, 31, 32, 33, 34, 35, 36>>
NilUuid == Rep(0, 32)

UuidParse36(s) ==
    IF s[9] # "-" \/ s[14] # "-" \/ s[19] # "-" \/ s[24] # "-"
    THEN [ok |-> FALSE, u |-> NilUuid]
    ELSE IF \E i \in 1..32 : ~IsHex(s[UuidHexOffsets[i]])
    THEN [ok |-> FALSE, u |-> NilUuid]
    ELSE [ok |-> TRUE, u |-> [i \in 1..32 |-> HexVal(s[UuidHexOffsets[i]])]]

UrnPrefixLower == <<"u", "r", "n", ":", "u", "u", "i", "d", ":">>
UrnPrefixUpper == <<"U", "R", "N", ":", "U", "U", "I", "D", ":">>

UuidParse(s) ==
    CASE Len(s) = 36 -> UuidParse36(s)
      [] Len(s) = 45 ->
            IF \E i \in 1..9 : s[i] \notin {UrnPrefixLower[i], UrnPrefixUpper[i]}
            THEN [ok |-> FALSE, u |-> NilUuid]
            ELSE UuidParse36(SubSeq(s, 10, 45))
      [] Len(s) = 38 -> UuidParse36(SubSeq(s, 2, 37))
      [] Len(s) = 32 ->
            IF \E i \in 1..32 : ~IsHex(s[i]) THEN [ok |-> FALSE, u |-> NilUuid]
            ELSE [ok |-> TRUE, u |-> [i \in 1..32 |-> HexVal(s[i])]]
      [] OTHER -> [ok |-> FALSE, u |-> NilUuid]

\* UUID.String(): canonical lower-case form
UuidString(u) ==
    LET h(i, j) == [k \in 1..(j - i + 1) |-> HexLower[u[i + k - 1] + 1]]
    IN h(1, 8) \o <<"-">> \o h(9, 12) \o <<"-">> \o h(13, 16) \o <<"-">> \o h(17, 20) \o <<"-">> \o h(21, 32)

(* ---------------------------- model types ------------------------------ *)
\* a pointer field: nil, or a value
Absent(zero) == [present |-> FALSE, v |-> zero]
Present(v) == [present |-> TRUE, v |-> v]

ZeroSub ==
    [id |-> NilUuid, service_name |-> <<>>, price |-> 0, user_id |-> NilUuid,
     start_date |-> ZeroTime, end_date |-> Absent(ZeroTime), created_at |-> 0]

\* model.Subscription built by Create before the insert assigns id and created_at
NewSub(service_name, price, user_id, start_date, end_date) ==
    [id |-> NilUuid, service_name |-> service_name, price |-> price, user_id |-> user_id,
     start_date |-> start_date, end_date |-> end_date, created_at |-> 0]

CreateSubscriptionRequest(service_name, price, user_id, start_date, end_date) ==
    [ServiceName |-> service_name, Price |-> price, UserID |-> user_id,
     StartDate |-> start_date, EndDate |-> end_date]

UpdateSubscriptionRequest(service_name, price, start_date, end_date) ==
    [ServiceName |-> service_name, Price |-> price, StartDate |-> start_date, EndDate |-> end_date]

CostAnalyticsRequest(user_id, service_name, from, to) ==
    [UserID |-> user_id, ServiceName |-> service_name, StartDateStr |-> from, EndDateStr |-> to]

(* ---------------------------- validators ------------------------------- *)
\* a variant that looks at price before service_name
ValidateCreateRequestPriceFirst(req) ==
    IF req.Price <= 0 THEN ValidationError(<<"price must be greater than zero">>)
    ELSE IF TrimSpace(req.ServiceName) = <<>> THEN ValidationError(<<"service_name is required">>)
    ELSE IF TrimSpace(req.UserID) = <<>> THEN ValidationError(<<"user_id is required">>)
    ELSE IF TrimSpace(req.StartDate) = <<>> THEN ValidationError(<<"start_date is required">>)
    ELSE NoErr

ValidateCreateRequest(req) ==
    IF TrimSpace(req.ServiceName) = <<>> THEN ValidationError(<<"service_name is required">>)
    ELSE IF req.Price <= 0 THEN ValidationError(<<"price must be greater than zero">>)
    ELSE IF TrimSpace(req.UserID) = <<>> THEN ValidationError(<<"user_id is required">>)
    ELSE IF TrimSpace(req.StartDate) = <<>> THEN ValidationError(<<"start_date is required">>)
    ELSE NoErr

\* a variant without the check of the price
ValidateUpdateRequestAnyPrice(req) ==
    IF ~req.ServiceName.present /\ ~req.Price.present /\ ~req.StartDate.present /\ ~req.EndDate.present
    THEN ValidationError(<<"at least one field must be provided for update">>)
    ELSE IF req.ServiceName.present /\ TrimSpace(req.ServiceName.v) = <<>>
    THEN ValidationError(<<"service_name cannot be empty">>)
    ELSE IF req.StartDate.present /\ TrimSpace(req.StartDate.v) = <<>>
    THEN ValidationError(<<"start_date cannot be empty">>)
    ELSE NoErr

\* a variant without the check that at least one field is present
ValidateUpdateRequestNoFieldCount(req) ==
    IF req.ServiceName.present /\ TrimSpace(req.ServiceName.v) = <<>>
    THEN ValidationError(<<"service_name cannot be empty">>)
    ELSE IF req.Price.present /\ req.Price.v <= 0
    THEN ValidationError(<<"price must be greater than zero">>)
    ELSE IF req.StartDate.present /\ TrimSpace(req.StartDate.v) = <<>>
    THEN ValidationError(<<"start_date cannot be empty">>)
    ELSE NoErr

ValidateUpdateRequest(req) ==
    IF ~req.ServiceName.present /\ ~req.Price.present /\ ~req.StartDate.present /\ ~req.EndDate.present
    THEN ValidationError(<<"at least one field must be provided for update">>)
    ELSE IF req.ServiceName.present /\ TrimSpace(req.ServiceName.v) = <<>>
    THEN ValidationError(<<"service_name cannot be empty">>)
    ELSE IF req.Price.present /\ req.Price.v <= 0
    THEN ValidationError(<<"price must be greater than zero">>)
    ELSE IF req.StartDate.present /\ TrimSpace(req.StartDate.v) = <<>>
    THEN ValidationError(<<"start_date cannot be empty">>)
    ELSE NoErr

(* ---------------------------- the subscriptions table ------------------ *)
\* uuid_generate_v4() for the n-th inserted row: a value no earlier row has
GenId(n) == [i \in 1..32 |-> IF i = 32 THEN n ELSE 0]

Rows(st, id) == {r \in st : r.id = id}

\* the cast of a bound text parameter to the uuid column type
PgUuidIn(s) ==
    CASE Len(s) = 36 -> UuidParse36(s)
      [] Len(s) = 38 ->
            IF s[1] = "{" /\ s[38] = "}" THEN UuidParse36(SubSeq(s, 2, 37))
            ELSE [ok |-> FALSE, u |-> NilUuid]
      [] Len(s) = 32 ->
            IF \E i \in 1..32 : ~IsHex(s[i]) THEN [ok |-> FALSE, u |-> NilUuid]
            ELSE [ok |-> TRUE, u |-> [i \in 1..32 |-> HexVal(s[i])]]
      [] OTHER -> [ok |-> FALSE, u |-> NilUuid]

RECURSIVE Itoa(_)
Itoa(n) == IF n < 10 THEN <<DigitChars[n + 1]>> ELSE Itoa(n \div 10) \o <<DigitChars[(n % 10) + 1]>>

RECURSIVE SumPrice(_)
SumPrice(rows) ==
    IF rows = {} THEN 0
    ELSE LET r == CHOOSE x \in rows : TRUE IN r.price + SumPrice(rows \ {r})

(* ---------------------------- repository ------------------------------- *)
\* INSERT ... RETURNING id, created_at
RepoCreate(st, sub, n, dbOk) ==
    IF ~dbOk
    THEN [store |-> st, sub |-> sub, err |-> Wrap("error creating subscription in DB", ErrDriver)]
    ELSE LET row == [sub EXCEPT !.id = GenId(n), !.created_at = n]
         IN [store |-> st \cup {row}, sub |-> row, err |-> NoErr]

\* a variant that passes sql.ErrNoRows on instead of answering (nil, nil)
RepoGetByIDNoRowsIsError(st, id, dbOk) ==
    IF ~dbOk
    THEN [sub |-> ZeroSub, found |-> FALSE,
          err |-> Wrap("error receiving subscription from DB", ErrDriver)]
    ELSE IF Rows(st, id) = {}
    THEN [sub |-> ZeroSub, found |-> FALSE,
          err |-> Wrap("error receiving subscription from DB", ErrNoRows)]
    ELSE [sub |-> CHOOSE r \in Rows(st, id) : TRUE, found |-> TRUE, err |-> NoErr]

\* SELECT ... WHERE id = $1
RepoGetByID(st, id, dbOk) ==
    IF ~dbOk
    THEN [sub |-> ZeroSub, found |-> FALSE,
          err |-> Wrap("error receiving subscription from DB", ErrDriver)]
    ELSE IF Rows(st, id) = {}
    THEN [sub |-> ZeroSub, found |-> FALSE, err |-> NoErr]
    ELSE [sub |-> CHOOSE r \in Rows(st, id) : TRUE, found |-> TRUE, err |-> NoErr]

\* a variant whose SET list leaves price out
UpdatedRowNoPrice(row, sub) ==
    [row EXCEPT !.service_name = sub.service_name,
                !.start_date = sub.start_date, !.end_date = sub.end_date]

\* the row an UPDATE ... SET service_name, price, start_date, end_date leaves
UpdatedRow(row, sub) ==
    [row EXCEPT !.service_name = sub.service_name, !.price = sub.price,
                !.start_date = sub.start_date, !.end_date = sub.end_date]

\* a variant that inserts the record when no row has its id (an upsert)
RepoUpdateUpsert(st, sub, dbOk) ==
    IF ~dbOk
    THEN [store |-> st, sub |-> sub, err |-> Wrap("error updating subscription in DB", ErrDriver)]
    ELSE IF Rows(st, sub.id) = {}
    THEN [store |-> st \cup {sub}, sub |-> sub, err |-> NoErr]
    ELSE LET row == CHOOSE r \in Rows(st, sub.id) : TRUE
         IN [store |-> (st \ {row}) \cup {UpdatedRow(row, sub)},
             sub |-> [sub EXCEPT !.created_at = row.created_at],
             err |-> NoErr]

\* UPDATE ... WHERE id = $1 RETURNING created_at, user_id
RepoUpdate(st, sub, dbOk) ==
    IF ~dbOk
    THEN [store |-> st, sub |-> sub, err |-> Wrap("error updating subscription in DB", ErrDriver)]
    ELSE IF Rows(st, sub.id) = {}
    THEN [store |-> st, sub |-> sub, err |-> Wrap("update record not found", ErrNoRows)]
    ELSE LET row == CHOOSE r \in Rows(st, sub.id) : TRUE
         IN [store |-> (st \ {row}) \cup {UpdatedRow(row, sub)},
             sub |-> [sub EXCEPT !.created_at = row.created_at],
             err |-> NoErr]

\* DELETE FROM subscriptions WHERE id = $1
RepoDelete(st, id, dbOk) ==
    IF ~dbOk
    THEN [store |-> st, deleted |-> FALSE,
          err |-> Wrap("error deleting subscription from DB", ErrDriver)]
    ELSE [store |-> st \ Rows(st, id), deleted |-> Cardinality(Rows(st, id)) > 0, err |-> NoErr]

(* ---------------------------- analytics query -------------------------- *)
BaseQuery == <<"SELECT SUM(price) FROM subscriptions WHERE 1=1">>
KwUser == " AND user_id = $"
KwService == " AND service_name = $"
KwBetween == " AND start_date BETWEEN $"
KwBetweenAnd == " AND $"
KwFrom == " AND start_date >= $"
KwTo == " AND start_date <= $"

\* a variant that writes the service name into the statement text
BuildTotalCostQueryInline(filters) ==
    LET q0 == [text |-> BaseQuery, args |-> <<>>, argCounter |-> 1]
        q1 == IF filters.UserID # <<>>
              THEN [text |-> q0.text \o <<KwUser>> \o Itoa(q0.argCounter),
                    args |-> Append(q0.args, filters.UserID),
                    argCounter |-> q0.argCounter + 1]
              ELSE q0
        q2 == IF filters.ServiceName # <<>>
              THEN [text |-> q1.text \o <<" AND service_name = '">> \o filters.ServiceName \o <<"'">>,
                    args |-> q1.args,
                    argCounter |-> q1.argCounter]
              ELSE q1
        q3 == IF filters.StartDateStr # <<>> /\ filters.EndDateStr # <<>>
              THEN [text |-> q2.text \o <<KwBetween>> \o Itoa(q2.argCounter)
                                 \o <<KwBetweenAnd>> \o Itoa(q2.argCounter + 1),
                    args |-> Append(Append(q2.args, filters.StartDateStr), filters.EndDateStr),
                    argCounter |-> q2.argCounter + 2]
              ELSE IF filters.StartDateStr # <<>>
              THEN [text |-> q2.text \o <<KwFrom>> \o Itoa(q2.argCounter),
                    args |-> Append(q2.args, filters.StartDateStr),
                    argCounter |-> q2.argCounter + 1]
              ELSE IF filters.EndDateStr # <<>>
              THEN [text |-> q2.text \o <<KwTo>> \o Itoa(q2.argCounter),
                    args |-> Append(q2.args, filters.EndDateStr),
                    argCounter |-> q2.argCounter + 1]
              ELSE q2
    IN [text |-> q3.text, args |-> q3.args]

\* the statement text and the bound arguments GetTotalCost builds
BuildTotalCostQuery(filters) ==
    LET q0 == [text |-> BaseQuery, args |-> <<>>, argCounter |-> 1]
        q1 == IF filters.UserID # <<>>
              THEN [text |-> q0.text \o <<KwUser>> \o Itoa(q0.argCounter),
                    args |-> Append(q0.args, filters.UserID),
                    argCounter |-> q0.argCounter + 1]
              ELSE q0
        q2 == IF filters.ServiceName # <<>>
              THEN [text |-> q1.text \o <<KwService>> \o Itoa(q1.argCounter),
                    args |-> Append(q1.args, filters.ServiceName),
                    argCounter |-> q1.argCounter + 1]
              ELSE q1
        q3 == IF filters.StartDateStr # <<>> /\ filters.EndDateStr # <<>>
              THEN [text |-> q2.text \o <<KwBetween>> \o Itoa(q2.argCounter)
                                 \o <<KwBetweenAnd>> \o Itoa(q2.argCounter + 1),
                    args |-> Append(Append(q2.args, filters.StartDateStr), filters.EndDateStr),
                    argCounter |-> q2.argCounter + 2]
              ELSE IF filters.StartDateStr # <<>>
              THEN [text |-> q2.text \o <<KwFrom>> \o Itoa(q2.argCounter),
                    args |-> Append(q2.args, filters.StartDateStr),
                    argCounter |-> q2.argCounter + 1]
              ELSE IF filters.EndDateStr # <<>>
              THEN [text |-> q2.text \o <<KwTo>> \o Itoa(q2.argCounter),
                    args |-> Append(q2.args, filters.EndDateStr),
                    argCounter |-> q2.argCounter + 1]
              ELSE q2
    IN [text |-> q3.text, args |-> q3.args]

\* what the database does with a statement text and its bound arguments
DateTextOk(s) ==
    /\ Len(s) = 10
    /\ s[5] = "-" /\ s[8] = "-"
    /\ \A i \in {1, 2, 3, 4, 6, 7, 9, 10} : IsDigit(s[i])

IsParam(t, i, nargs) == i <= Len(t) /\ IsDigit(t[i]) /\ DigitVal(t[i]) \in 1..nargs

RECURSIVE WhereParams(_)
WhereParams(t) ==
    IF t = <<>> THEN {}
    ELSE (IF IsDigit(t[1]) THEN {DigitVal(t[1])} ELSE {}) \cup WhereParams(Tail(t))

RECURSIVE WhereOk(_, _)
WhereOk(t, args) ==
    IF t = <<>> THEN TRUE
    ELSE IF ~IsParam(t, 2, Len(args)) THEN FALSE
    ELSE LET a == args[DigitVal(t[2])]
         IN CASE t[1] = KwUser -> PgUuidIn(a).ok /\ WhereOk(SubSeq(t, 3, Len(t)), args)
              [] t[1] = KwService -> WhereOk(SubSeq(t, 3, Len(t)), args)
              [] t[1] \in {KwFrom, KwTo} -> DateTextOk(a) /\ WhereOk(SubSeq(t, 3, Len(t)), args)
              [] t[1] = KwBetween ->
                    /\ Len(t) >= 4 /\ t[3] = KwBetweenAnd /\ IsParam(t, 4, Len(args))
                    /\ DateTextOk(a) /\ DateTextOk(args[DigitVal(t[4])])
                    /\ WhereOk(SubSeq(t, 5, Len(t)), args)
              [] OTHER -> FALSE

RECURSIVE WhereHolds(_, _, _)
WhereHolds(row, t, args) ==
    IF t = <<>> THEN TRUE
    ELSE LET a == args[DigitVal(t[2])]
         IN CASE t[1] = KwUser ->
                    row.user_id = PgUuidIn(a).u /\ WhereHolds(row, SubSeq(t, 3, Len(t)), args)
              [] t[1] = KwService ->
                    row.service_name = a /\ WhereHolds(row, SubSeq(t, 3, Len(t)), args)
              [] t[1] = KwFrom ->
                    DateOrd(row.start_date) >= DateOrd(DateFromText(a))
                    /\ WhereHolds(row, SubSeq(t, 3, Len(t)), args)
              [] t[1] = KwTo ->
                    DateOrd(row.start_date) <= DateOrd(DateFromText(a))
                    /\ WhereHolds(row, SubSeq(t, 3, Len(t)), args)
              [] t[1] = KwBetween ->
                    /\ DateOrd(row.start_date) >= DateOrd(DateFromText(a))
                    /\ DateOrd(row.start_date) <= DateOrd(DateFromText(args[DigitVal(t[4])]))
                    /\ WhereHolds(row, SubSeq(t, 5, Len(t)), args)

\* QueryRowContext(ctx, text, args...).Scan(&totalCost): SUM over no rows is NULL
ExecTotalCost(st, text, args) ==
    LET where == SubSeq(text, Len(BaseQuery) + 1, Len(text))
    IN IF ~HasPrefix(text, BaseQuery) \/ ~WhereOk(where, args)
          \/ WhereParams(where) # 1..Len(args)
       THEN [ok |-> FALSE, Valid |-> FALSE, Int64 |-> 0]
       ELSE LET rows == {r \in st : WhereHolds(r, where, args)}
            IN [ok |-> TRUE, Valid |-> rows # {}, Int64 |-> SumPrice(rows)]

\* a variant that scans SUM into a plain integer: a NULL sum fails the Scan
RepoGetTotalCostNullIsError(st, filters, dbOk) ==
    LET q == BuildTotalCostQuery(filters)
        r == ExecTotalCost(st, q.text, q.args)
    IN IF ~dbOk \/ ~r.ok \/ ~r.Valid
       THEN [total |-> 0, err |-> Wrap("error when executing an analytics request", ErrDriver),
             text |-> q.text, args |-> q.args]
       ELSE [total |-> r.Int64, err |-> NoErr, text |-> q.text, args |-> q.args]

RepoGetTotalCost(st, filters, dbOk) ==
    LET q == BuildTotalCostQuery(filters)
        r == ExecTotalCost(st, q.text, q.args)
    IN IF ~dbOk \/ ~r.ok
       THEN [total |-> 0, err |-> Wrap("error when executing an analytics request", ErrDriver),
             text |-> q.text, args |-> q.args]
       ELSE IF ~r.Valid
       THEN [total |-> 0, err |-> NoErr, text |-> q.text, args |-> q.args]
       ELSE [total |-> r.Int64, err |-> NoErr, text |-> q.text, args |-> q.args]

(* ---------------------------- service ---------------------------------- *)
\* Every service result carries the gateway calls the operation made, each with
\* whether the driver carried it out.
Call(name, dbOk) == [call |-> name, driverOk |-> dbOk]

SvcCreate(st, req, n, dbOk) ==
    LET verr == ValidateCreateRequest(req)
        userID == UuidParse(req.UserID)
        startDate == ParseMonthYear(<<"start_date">>, req.StartDate)
        hasEnd == req.EndDate.present /\ req.EndDate.v # <<>>
        parsedEndDate == ParseMonthYear(<<"end_date">>, req.EndDate.v)
        sub == NewSub(req.ServiceName, req.Price, userID.u, startDate.t,
                      IF hasEnd THEN Present(parsedEndDate.t) ELSE Absent(ZeroTime))
        r == RepoCreate(st, sub, n, dbOk)
        stop(e, c) == [store |-> st, sub |-> ZeroSub, err |-> e, calls |-> c]
    IN IF ~verr.nil THEN stop(verr, <<>>)
       ELSE IF ~userID.ok
       THEN stop(ValidationError(<<"incorrect format user_id (expected UUID)">>), <<>>)
       ELSE IF ~startDate.err.nil THEN stop(startDate.err, <<>>)
       ELSE IF hasEnd /\ ~parsedEndDate.err.nil THEN stop(parsedEndDate.err, <<>>)
       ELSE IF ~r.err.nil THEN stop(Wrap("failed to save subscription", r.err), <<Call("Create", dbOk)>>)
       ELSE [store |-> r.store, sub |-> r.sub, err |-> NoErr, calls |-> <<Call("Create", dbOk)>>]

SvcGetByID(st, idStr, dbOk) ==
    LET id == UuidParse(idStr)
        r == RepoGetByID(st, id.u, dbOk)
        stop(e, c) == [sub |-> ZeroSub, err |-> e, calls |-> c]
    IN IF ~id.ok
       THEN stop(ValidationError(<<"incorrect format ID (expected UUID)">>), <<>>)
       ELSE IF ~r.err.nil
       THEN stop(Wrap("service error when receiving a subscription", r.err), <<Call("GetByID", dbOk)>>)
       ELSE IF ~r.found THEN stop(ErrNotFound, <<Call("GetByID", dbOk)>>)
       ELSE [sub |-> r.sub, err |-> NoErr, calls |-> <<Call("GetByID", dbOk)>>]

\* a variant that resets end_date when the request leaves it out
ApplyUpdateClearsEnd(existingSub, req) ==
    LET s1 == IF req.ServiceName.present
              THEN [existingSub EXCEPT !.service_name = req.ServiceName.v] ELSE existingSub
        s2 == IF req.Price.present THEN [s1 EXCEPT !.price = req.Price.v] ELSE s1
        startDate == ParseMonthYear(<<"start_date">>, req.StartDate.v)
        s3 == IF req.StartDate.present THEN [s2 EXCEPT !.start_date = startDate.t] ELSE s2
        parsedEndDate == ParseMonthYear(<<"end_date">>, req.EndDate.v)
        s4 == IF req.EndDate.present /\ req.EndDate.v # <<>>
              THEN [s3 EXCEPT !.end_date = Present(parsedEndDate.t)]
              ELSE [s3 EXCEPT !.end_date = Absent(ZeroTime)]
    IN IF req.StartDate.present /\ ~startDate.err.nil THEN [sub |-> s2, err |-> startDate.err]
       ELSE IF req.EndDate.present /\ req.EndDate.v # <<>> /\ ~parsedEndDate.err.nil
       THEN [sub |-> s3, err |-> parsedEndDate.err]
       ELSE [sub |-> s4, err |-> NoErr]

\* a variant that treats an empty end_date like Create does: as no end_date given
ApplyUpdateKeepsEndOnEmpty(existingSub, req) ==
    LET s1 == IF req.ServiceName.present
              THEN [existingSub EXCEPT !.service_name = req.ServiceName.v] ELSE existingSub
        s2 == IF req.Price.present THEN [s1 EXCEPT !.price = req.Price.v] ELSE s1
        startDate == ParseMonthYear(<<"start_date">>, req.StartDate.v)
        s3 == IF req.StartDate.present THEN [s2 EXCEPT !.start_date = startDate.t] ELSE s2
        parsedEndDate == ParseMonthYear(<<"end_date">>, req.EndDate.v)
        s4 == IF req.EndDate.present /\ req.EndDate.v # <<>>
              THEN [s3 EXCEPT !.end_date = Present(parsedEndDate.t)]
              ELSE s3
    IN IF req.StartDate.present /\ ~startDate.err.nil THEN [sub |-> s2, err |-> startDate.err]
       ELSE IF req.EndDate.present /\ req.EndDate.v # <<>> /\ ~parsedEndDate.err.nil
       THEN [sub |-> s3, err |-> parsedEndDate.err]
       ELSE [sub |-> s4, err |-> NoErr]

\* a variant that skips a date it cannot parse and saves the other fields
ApplyUpdateSkipsBadDate(existingSub, req) ==
    LET s1 == IF req.ServiceName.present
              THEN [existingSub EXCEPT !.service_name = req.ServiceName.v] ELSE existingSub
        s2 == IF req.Price.present THEN [s1 EXCEPT !.price = req.Price.v] ELSE s1
        startDate == ParseMonthYear(<<"start_date">>, req.StartDate.v)
        s3 == IF req.StartDate.present /\ startDate.err.nil
              THEN [s2 EXCEPT !.start_date = startDate.t] ELSE s2
        parsedEndDate == ParseMonthYear(<<"end_date">>, req.EndDate.v)
        s4 == IF req.EndDate.present
              THEN IF req.EndDate.v # <<>>
                   THEN IF parsedEndDate.err.nil
                        THEN [s3 EXCEPT !.end_date = Present(parsedEndDate.t)] ELSE s3
                   ELSE [s3 EXCEPT !.end_date = Absent(ZeroTime)]
              ELSE s3
    IN [sub |-> s4, err |-> NoErr]

\* the in-memory merge of Update: the request applied to the fetched copy
ApplyUpdate(existingSub, req) ==
    LET s1 == IF req.ServiceName.present
              THEN [existingSub EXCEPT !.service_name = req.ServiceName.v] ELSE existingSub
        s2 == IF req.Price.present THEN [s1 EXCEPT !.price = req.Price.v] ELSE s1
        startDate == ParseMonthYear(<<"start_date">>, req.StartDate.v)
        s3 == IF req.StartDate.present THEN [s2 EXCEPT !.start_date = startDate.t] ELSE s2
        parsedEndDate == ParseMonthYear(<<"end_date">>, req.EndDate.v)
        s4 == IF req.EndDate.present
              THEN IF req.EndDate.v # <<>>
                   THEN [s3 EXCEPT !.end_date = Present(parsedEndDate.t)]
                   ELSE [s3 EXCEPT !.end_date = Absent(ZeroTime)]
              ELSE s3
    IN IF req.StartDate.present /\ ~startDate.err.nil THEN [sub |-> s2, err |-> startDate.err]
       ELSE IF req.EndDate.present /\ req.EndDate.v # <<>> /\ ~parsedEndDate.err.nil
       THEN [sub |-> s3, err |-> parsedEndDate.err]
       ELSE [sub |-> s4, err |-> NoErr]

\* Update up to the point where it is about to call Repo.Update
SvcUpdateFetch(st, idStr, req, dbOk) ==
    LET verr == ValidateUpdateRequest(req)
        subID == UuidParse(idStr)
        r == RepoGetByID(st, subID.u, dbOk)
        m == ApplyUpdate(r.sub, req)
        stop(e, c) == [err |-> e, calls |-> c, sub |-> ZeroSub, fetched |-> ZeroSub,
                       existingSub |-> ZeroSub]
    IN IF ~verr.nil THEN stop(verr, <<>>)
       ELSE IF ~subID.ok
       THEN stop(ValidationError(<<"incorrect format subscription ID (expected UUID)">>), <<>>)
       ELSE IF ~r.err.nil
       THEN stop(Wrap("failed to retrieve subscription for update", r.err), <<Call("GetByID", dbOk)>>)
       ELSE IF ~r.found THEN stop(ErrNotFound, <<Call("GetByID", dbOk)>>)
       ELSE IF ~m.err.nil THEN stop(m.err, <<Call("GetByID", dbOk)>>)
       ELSE [err |-> NoErr, calls |-> <<Call("GetByID", dbOk)>>, sub |-> ZeroSub,
             fetched |-> r.sub, existingSub |-> m.sub]

\* the rest of Update: Repo.Update of the merged copy
SvcUpdateSave(st, existingSub, calls, dbOk) ==
    LET r == RepoUpdate(st, existingSub, dbOk)
        c == Append(calls, Call("Update", dbOk))
    IN IF ~r.err.nil
       THEN [store |-> st, sub |-> ZeroSub, calls |-> c,
             err |-> Wrap("failed to save updated subscription", r.err)]
       ELSE [store |-> r.store, sub |-> r.sub, calls |-> c, err |-> NoErr]

\* a variant that hands the repository's false on without an error
SvcDeleteFalseNoError(st, idStr, dbOk) ==
    LET id == UuidParse(idStr)
        r == RepoDelete(st, id.u, dbOk)
    IN IF ~id.ok
       THEN [store |-> st, deleted |-> FALSE, calls |-> <<>>, sub |-> ZeroSub,
             err |-> ValidationError(<<"incorrect format ID (expected UUID)">>)]
       ELSE IF ~r.err.nil
       THEN [store |-> st, deleted |-> FALSE, calls |-> <<Call("Delete", dbOk)>>, sub |-> ZeroSub,
             err |-> Wrap("service error when deleting a subscription", r.err)]
       ELSE [store |-> r.store, deleted |-> r.deleted, calls |-> <<Call("Delete", dbOk)>>,
             sub |-> ZeroSub, err |-> NoErr]

SvcDelete(st, idStr, dbOk) ==
    LET id == UuidParse(idStr)
        r == RepoDelete(st, id.u, dbOk)
    IN IF ~id.ok
       THEN [store |-> st, deleted |-> FALSE, calls |-> <<>>, sub |-> ZeroSub,
             err |-> ValidationError(<<"incorrect format ID (expected UUID)">>)]
       ELSE IF ~r.err.nil
       THEN [store |-> st, deleted |-> FALSE, calls |-> <<Call("Delete", dbOk)>>, sub |-> ZeroSub,
             err |-> Wrap("service error when deleting a subscription", r.err)]
       ELSE IF ~r.deleted
       THEN [store |-> r.store, deleted |-> FALSE, calls |-> <<Call("Delete", dbOk)>>,
             sub |-> ZeroSub, err |-> ErrNotFound]
       ELSE [store |-> r.store, deleted |-> TRUE, calls |-> <<Call("Delete", dbOk)>>,
             sub |-> ZeroSub, err |-> NoErr]

SvcGetCostAnalytics(st, req, dbOk) ==
    LET startDate == ParseMonthYear(<<"start_date_from">>, req.StartDateStr)
        endDate == ParseMonthYear(<<"start_date_to">>, req.EndDateStr)
        hasFrom == req.StartDateStr # <<>>
        hasTo == req.EndDateStr # <<>>
        filters == CostAnalyticsRequest(req.UserID, req.ServiceName,
                       IF hasFrom THEN FormatISO(startDate.t) ELSE <<>>,
                       IF hasTo THEN FormatISO(endDate.t) ELSE <<>>)
        r == RepoGetTotalCost(st, filters, dbOk)
        stop(e) == [total |-> 0, err |-> e, calls |-> <<>>, sub |-> ZeroSub, text |-> <<>>,
                    args |-> <<>>]
    IN IF hasFrom /\ ~startDate.err.nil THEN stop(startDate.err)
       ELSE IF hasTo /\ ~endDate.err.nil THEN stop(endDate.err)
       ELSE IF hasFrom /\ hasTo /\ After(startDate.t, endDate.t)
       THEN stop(ValidationError(<<"start_date_from cannot be after start_date_to">>))
       ELSE IF req.UserID # <<>> /\ ~UuidParse(req.UserID).ok
       THEN stop(ValidationError(<<"incorrect format user_id (expected UUID)">>))
       ELSE IF ~r.err.nil
       THEN [total |-> 0, err |-> Wrap("service error while receiving analytics", r.err),
             calls |-> <<Call("GetTotalCost", dbOk)>>, sub |-> ZeroSub, text |-> r.text,
             args |-> r.args]
       ELSE [total |-> r.total, err |-> NoErr, calls |-> <<Call("GetTotalCost", dbOk)>>,
             sub |-> ZeroSub, text |-> r.text, args |-> r.args]

(* ---------------------------- handlers --------------------------------- *)
UserFacingErrorMessage(err) ==
    LET prefix == ErrValidation.msg \o <<": ">>
    IN IF HasPrefix(err.msg, prefix) THEN SubSeq(err.msg, Len(prefix) + 1, Len(err.msg))
       ELSE err.msg

\* a variant whose default case answers with err.Error()
RespondServiceErrorLeaks(err) ==
    IF ErrorsIs(err, ErrValidation) THEN [status |-> 400, error |-> UserFacingErrorMessage(err)]
    ELSE IF ErrorsIs(err, ErrNotFound) THEN [status |-> 404, error |-> <<"Subscription not found">>]
    ELSE [status |-> 500, error |-> err.msg]

RespondServiceError(err) ==
    IF ErrorsIs(err, ErrValidation) THEN [status |-> 400, error |-> UserFacingErrorMessage(err)]
    ELSE IF ErrorsIs(err, ErrNotFound) THEN [status |-> 404, error |-> <<"Subscription not found">>]
    ELSE [status |-> 500, error |-> <<"Internal Server Error">>]

\* the HTTP answer of a handler: RespondServiceError on an error, else the success status
Respond(err, okStatus) ==
    IF ~err.nil THEN RespondServiceError(err) ELSE [status |-> okStatus, error |-> <<>>]

\* DeleteSubscription
RespondDelete(err, deleted) ==
    IF ~err.nil THEN RespondServiceError(err)
    ELSE IF ~deleted THEN [status |-> 404, error |-> <<"Subscription not found">>]
    ELSE [status |-> 204, error |-> <<>>]

(* ---------------------------- inputs ----------------------------------- *)
UuidText(c) ==
    Rep(c, 8) \o <<"-">> \o Rep(c, 4) \o <<"-">> \o Rep(c, 4) \o <<"-">> \o Rep(c, 4)
        \o <<"-">> \o Rep(c, 12)

UserA == UuidText("a")
UserAUpper == UuidText("A")
UserB == UuidText("b")
NotUuid == <<"x", "y", "z">>
UnknownId == UuidText("f")
IdText(n) == UuidString(GenId(n))

Jul25 == <<"0", "7", "-", "2", "0", "2", "5">>
Aug25 == <<"0", "8", "-", "2", "0", "2", "5">>
Sep25 == <<"0", "9", "-", "2", "0", "2", "5">>
Month13 == <<"1", "3", "-", "2", "0", "2", "5">>
ShortMonth == <<"7", "-", "2", "0", "2", "5">>
IsoOrder == <<"2", "0", "2", "5", "-", "0", "8">>
Blank == <<" ">>

NoStr == Absent(<<>>)
NoInt == Absent(0)

IdInputs == {IdText(n) : n \in 1..MaxCreates} \cup {UnknownId, NotUuid}

CreateOk(ed) == CreateSubscriptionRequest(<<"A">>, 5, UserA, Jul25, ed)

\* one well-formed request per end_date shape, and one request per way of being rejected
CreateReqs ==
    {CreateOk(ed) : ed \in {NoStr, Present(<<>>), Present(Aug25), Present(IsoOrder)}}
    \cup {CreateSubscriptionRequest(Blank, 5, UserA, Jul25, NoStr),
          CreateSubscriptionRequest(<<"A">>, 0, UserA, Jul25, NoStr),
          CreateSubscriptionRequest(<<"A">>, 5, <<>>, Jul25, NoStr),
          CreateSubscriptionRequest(<<"A">>, 5, NotUuid, Jul25, NoStr),
          CreateSubscriptionRequest(<<"A">>, 5, UserA, <<>>, NoStr),
          CreateSubscriptionRequest(<<"A">>, 5, UserA, ShortMonth, NoStr)}

\* well-formed requests: each changes fields the others leave alone
UpdateOkReqs ==
    {UpdateSubscriptionRequest(Present(<<"B">>), NoInt, NoStr, NoStr),
     UpdateSubscriptionRequest(NoStr, Present(7), NoStr, NoStr),
     UpdateSubscriptionRequest(NoStr, NoInt, Present(Aug25), Present(Sep25)),
     UpdateSubscriptionRequest(NoStr, NoInt, NoStr, Present(<<>>)),
     UpdateSubscriptionRequest(NoStr, NoInt, NoStr, Present(Sep25))}

\* the shapes Update rejects
UpdateBadReqs ==
    {UpdateSubscriptionRequest(NoStr, NoInt, NoStr, NoStr),
     UpdateSubscriptionRequest(Present(Blank), NoInt, NoStr, NoStr),
     UpdateSubscriptionRequest(NoStr, Present(0), NoStr, NoStr),
     UpdateSubscriptionRequest(NoStr, NoInt, Present(<<>>), NoStr),
     UpdateSubscriptionRequest(Present(<<"B">>), Present(7), Present(Month13), NoStr),
     UpdateSubscriptionRequest(NoStr, Present(7), NoStr, Present(IsoOrder))}

AnalyticsFewReqs ==
    {CostAnalyticsRequest(<<>>, <<>>, <<>>, <<>>),
     CostAnalyticsRequest(UserA, <<"A">>, Jul25, Aug25),
     CostAnalyticsRequest(NotUuid, <<>>, <<>>, <<>>),
     CostAnalyticsRequest(<<>>, <<>>, ShortMonth, <<>>),
     CostAnalyticsRequest(<<>>, <<>>, <<>>, IsoOrder),
     CostAnalyticsRequest(<<>>, <<>>, Aug25, Jul25)}

\* the rows the analytics are computed over: they differ in user, service, month and price
RowReqs ==
    {CreateSubscriptionRequest(<<"A">>, 1, UserA, Jul25, NoStr),
     CreateSubscriptionRequest(<<"B">>, 2, UserB, Aug25, NoStr),
     CreateSubscriptionRequest(<<"A">>, 4, UserB, Sep25, Present(Sep25))}

RowIds == {IdText(n) : n \in 1..MaxRows}

Inject == <<"A", "'", ";", "-", "-">>

\* q with the filters outside keep left empty
Mask(q, keep) ==
    CostAnalyticsRequest(IF keep[1] THEN q.UserID ELSE <<>>,
                         IF keep[2] THEN q.ServiceName ELSE <<>>,
                         IF keep[3] THEN q.StartDateStr ELSE <<>>,
                         IF keep[4] THEN q.EndDateStr ELSE <<>>)

\* every presence pattern of the four filters with two sets of values, the
\* spellings of a value that need care, and one request per way of being rejected
AnalyticsReqs ==
    {Mask(q, keep) : q \in {CostAnalyticsRequest(UserA, <<"A">>, Jul25, Aug25),
                            CostAnalyticsRequest(UserB, <<"B">>, Aug25, Sep25)},
                     keep \in [1..4 -> BOOLEAN]}
    \cup {CostAnalyticsRequest(UserAUpper, <<>>, <<>>, <<>>),
          CostAnalyticsRequest(<<>>, Inject, <<>>, <<>>),
          CostAnalyticsRequest(UserB, <<"A">>, Sep25, Sep25),
          CostAnalyticsRequest(NotUuid, <<"A">>, <<>>, <<>>),
          CostAnalyticsRequest(<<>>, <<>>, Month13, <<>>),
          CostAnalyticsRequest(<<>>, <<>>, Sep25, Aug25)}

(* ---------------------------- state ------------------------------------ *)
\* resp[p]: the request handler p served last and its answer (status, error body,
\* the service error behind it, the gateway calls made); loc[p]: the locals
\* of an Update of p between its Repo.GetByID and its Repo.Update (fetched is the
\* row as read, existingSub the copy the request was merged onto).
NoReq == UpdateSubscriptionRequest(NoStr, NoInt, NoStr, NoStr)

NoResp ==
    [op |-> "none", idStr |-> <<>>, req |-> NoReq, status |-> 0, error |-> <<>>,
     err |-> NoErr, total |-> 0, calls |-> <<>>, text |-> <<>>, args |-> <<>>]

MkResp(op, idStr, req, http, r) ==
    [NoResp EXCEPT !.op = op, !.idStr = idStr, !.req = req, !.status = http.status,
                   !.error = http.error, !.err = r.err, !.calls = r.calls]

IdleLoc == [idStr |-> <<>>, req |-> NoReq, fetched |-> ZeroSub, existingSub |-> ZeroSub]

Init ==
    /\ store = {}
    /\ created = 0
    /\ updates = 0
    /\ pc = [p \in Procs |-> "idle"]
    /\ loc = [p \in Procs |-> IdleLoc]
    /\ resp = [p \in Procs |-> NoResp]

(* ---------------------------- operations ------------------------------- *)
\* The server runs one handler per request.  Handlers are interchangeable, so a
\* request is given to handler 1 whenever handler 1 is free, and to handler 2
\* only while handler 1 is inside an Update.
CanStart(p) == pc[p] = "idle" /\ \A q \in Procs : q < p => pc[q] # "idle"

Create(p, req, dbOk) ==
    /\ CanStart(p)
    /\ \E r \in {SvcCreate(store, req, created + 1, dbOk)} :
          /\ store' = r.store
          /\ created' = IF r.err.nil THEN created + 1 ELSE created
          /\ resp' = [resp EXCEPT ![p] = MkResp("Create", <<>>, req, Respond(r.err, 201), r)]
    /\ UNCHANGED <<updates, pc, loc>>

GetByID(p, idStr, dbOk) ==
    /\ CanStart(p)
    /\ \E r \in {SvcGetByID(store, idStr, dbOk)} :
          resp' = [resp EXCEPT ![p] = MkResp("GetByID", idStr, NoReq, Respond(r.err, 200), r)]
    /\ UNCHANGED <<store, created, updates, pc, loc>>

UpdateBegin(p, idStr, req, dbOk) ==
    /\ CanStart(p)
    /\ \E r \in {SvcUpdateFetch(store, idStr, req, dbOk)} :
          IF r.err.nil
          THEN /\ pc' = [pc EXCEPT ![p] = "update"]
               /\ loc' = [loc EXCEPT ![p] = [idStr |-> idStr, req |-> req,
                                             fetched |-> r.fetched,
                                             existingSub |-> r.existingSub]]
               /\ resp' = [resp EXCEPT ![p] =
                              MkResp("Update", idStr, req, [status |-> 0, error |-> <<>>], r)]
               /\ updates' = updates + 1
          ELSE /\ resp' = [resp EXCEPT ![p] =
                              MkResp("Update", idStr, req, RespondServiceError(r.err), r)]
               /\ UNCHANGED <<pc, loc, updates>>
    /\ UNCHANGED <<store, created>>

UpdateSave(p, dbOk) ==
    /\ pc[p] = "update"
    /\ \E r \in {SvcUpdateSave(store, loc[p].existingSub, resp[p].calls, dbOk)} :
          /\ store' = r.store
          /\ resp' = [resp EXCEPT ![p] =
                         MkResp("Update", loc[p].idStr, loc[p].req, Respond(r.err, 200), r)]
    /\ pc' = [pc EXCEPT ![p] = "idle"]
    /\ loc' = [loc EXCEPT ![p] = IdleLoc]
    /\ UNCHANGED <<created, updates>>

Delete(p, idStr, dbOk) ==
    /\ CanStart(p)
    /\ \E r \in {SvcDelete(store, idStr, dbOk)} :
          /\ store' = r.store
          /\ resp' = [resp EXCEPT ![p] =
                         MkResp("Delete", idStr, NoReq, RespondDelete(r.err, r.deleted), r)]
    /\ UNCHANGED <<created, updates, pc, loc>>

GetCostAnalytics(p, req, dbOk) ==
    /\ CanStart(p)
    /\ \E r \in {SvcGetCostAnalytics(store, req, dbOk)} :
          resp' = [resp EXCEPT ![p] =
                      [MkResp("GetCostAnalytics", <<>>, req, Respond(r.err, 200), r)
                          EXCEPT !.total = r.total, !.text = r.text, !.args = r.args]]
    /\ UNCHANGED <<store, created, updates, pc, loc>>

(* ---------------------------- specifications --------------------------- *)
\* Two handlers at once, over the requests the service accepts.
Next ==
    \E p \in Procs :
        \/ \E ed \in {NoStr, Present(Aug25)} : created < MaxCreates /\ Create(p, CreateOk(ed), TRUE)
        \/ \E idStr \in IdInputs \ {NotUuid}, req \in UpdateOkReqs :
              updates < MaxUpdates /\ UpdateBegin(p, idStr, req, TRUE)
        \/ UpdateSave(p, TRUE)
        \/ \E idStr \in IdInputs \ {NotUuid} : Delete(p, idStr, TRUE)

Spec == Init /\ [][Next]_vars

\* One handler at a time, over accepted and rejected requests; the driver may fail
\* any gateway call (one request per operation is tried against a failing driver).
NextSeq ==
    \/ \E req \in CreateReqs : created < MaxCreates /\ Create(1, req, TRUE)
    \/ created < MaxCreates /\ Create(1, CreateOk(NoStr), FALSE)
    \/ \E idStr \in IdInputs, dbOk \in BOOLEAN : GetByID(1, idStr, dbOk)
    \/ \E idStr \in IdInputs, req \in UpdateOkReqs \cup UpdateBadReqs :
          updates < MaxUpdates /\ UpdateBegin(1, idStr, req, TRUE)
    \/ \E idStr \in IdInputs :
          updates < MaxUpdates /\ UpdateBegin(1, idStr, UpdateSubscriptionRequest(NoStr, Present(7), NoStr, NoStr), FALSE)
    \/ \E dbOk \in BOOLEAN : UpdateSave(1, dbOk)
    \/ \E idStr \in IdInputs, dbOk \in BOOLEAN : Delete(1, idStr, dbOk)
    \/ \E req \in AnalyticsFewReqs : GetCostAnalytics(1, req, TRUE)
    \/ GetCostAnalytics(1, CostAnalyticsRequest(<<>>, <<>>, <<>>, <<>>), FALSE)

SpecSeq == Init /\ [][NextSeq]_vars

\* One handler at a time: rows are inserted and deleted, and the total is asked for.
NextAnalytics ==
    \/ \E req \in RowReqs : created < MaxRows /\ Create(1, req, TRUE)
    \/ \E idStr \in RowIds : Delete(1, idStr, TRUE)
    \/ \E req \in AnalyticsReqs : GetCostAnalytics(1, req, TRUE)
    \/ GetCostAnalytics(1, CostAnalyticsRequest(UserA, <<>>, <<>>, <<>>), FALSE)

SpecAnalytics == Init /\ [][NextAnalytics]_vars

\* ValidateCreateRequest called on its own with req; the request and the error are kept
ValidateCreate(req) ==
    /\ pc[1] = "idle"
    /\ resp' = [resp EXCEPT ![1] = [NoResp EXCEPT !.op = "ValidateCreateRequest", !.req = req,
                                                  !.err = ValidateCreateRequest(req)]]
    /\ UNCHANGED <<store, created, updates, pc, loc>>

\* requests with every field empty, blank, padded, out of range or usable
ValidateCreateInputs ==
    {CreateSubscriptionRequest(n, pr, u, sd, NoStr) :
        n \in {<<>>, Blank, <<" ", "\t">>, <<"A">>, <<" ", "A", " ">>},
        pr \in {-1, 0, 1, 500},
        u \in {<<>>, Blank, <<"\n">>, NotUuid, UserA},
        sd \in {<<>>, Blank, <<"\r", " ">>, ShortMonth, Jul25}}

NextValidateCreate == \E req \in ValidateCreateInputs : ValidateCreate(req)

SpecValidateCreate == Init /\ [][NextValidateCreate]_vars

\* ValidateUpdateRequest called on its own with req; the request and the error are kept
ValidateUpdate(req) ==
    /\ pc[1] = "idle"
    /\ resp' = [resp EXCEPT ![1] = [NoResp EXCEPT !.op = "ValidateUpdateRequest", !.req = req,
                                                  !.err = ValidateUpdateRequest(req)]]
    /\ UNCHANGED <<store, created, updates, pc, loc>>

\* every pattern of absent and present fields, present ones empty, blank, out of range or usable
ValidateUpdateInputs ==
    {UpdateSubscriptionRequest(n, pr, sd, ed) :
        n \in {NoStr, Present(<<>>), Present(Blank), Present(<<"B">>)},
        pr \in {NoInt, Present(-1), Present(0), Present(7)},
        sd \in {NoStr, Present(<<>>), Present(<<"\t", " ">>), Present(Aug25)},
        ed \in {NoStr, Present(<<>>), Present(Blank), Present(Sep25)}}

\* the validator on its own, and Update called with the request that has no field
NextValidateUpdate ==
    \/ \E req \in ValidateUpdateInputs : ValidateUpdate(req)
    \/ \E ed \in {NoStr, Present(Aug25)} : created < MaxCreates /\ Create(1, CreateOk(ed), TRUE)
    \/ \E idStr \in IdInputs, dbOk \in BOOLEAN : UpdateBegin(1, idStr, NoReq, dbOk)

SpecValidateUpdate == Init /\ [][NextValidateUpdate]_vars

\* ParseMonthYear called on its own; the field name, the value, the time and the error are kept
ParseMonthYearCall(fieldName, value) ==
    /\ pc[1] = "idle"
    /\ \E r \in {ParseMonthYear(fieldName, value)} :
          resp' = [resp EXCEPT ![1] = [NoResp EXCEPT !.op = "ParseMonthYear", !.text = fieldName,
                                                    !.idStr = value, !.args = <<r.t>>,
                                                    !.err = r.err]]
    /\ UNCHANGED <<store, created, updates, pc, loc>>

\* seven-character texts around the layout, and texts of other lengths
MonthYearInputs ==
    {<<c1, c2, sep>> \o year :
        c1 \in {"0", "1", "9", "x"}, c2 \in {"0", "1", "2", "3", "9"}, sep \in {"-", "/"},
        year \in {<<"2", "0", "2", "5">>, <<"0", "0", "0", "0">>, <<"2", "0", "x", "5">>,
                  <<"9", "9", "9", "9">>, <<"+", "0", "2", "5">>}}
    \cup {<<>>, Blank, ShortMonth, IsoOrder,
           <<"0", "7", "-", "2", "0", "2">>, <<"0", "7", "-", "2", "0", "2", "5", "5">>,
           <<" ">> \o Jul25, Jul25 \o <<" ">>, <<"0", "7", "2", "0", "2", "5">>,
           <<"0", "7", "-", "0", "1", "-", "2", "0", "2", "5">>}

\* the field names the service passes
FieldNames == {<<"start_date">>, <<"end_date">>, <<"start_date_from">>, <<"start_date_to">>}

NextParseMonthYear ==
    \E fieldName \in FieldNames, value \in MonthYearInputs : ParseMonthYearCall(fieldName, value)

SpecParseMonthYear == Init /\ [][NextParseMonthYear]_vars

\* months of three years, the year boundary included
RangeMonths ==
    {<<"1", "2", "-", "2", "0", "2", "4">>, <<"0", "1", "-", "2", "0", "2", "5">>, Jul25, Aug25,
     <<"0", "1", "-", "2", "0", "2", "6">>}

\* analytics requests with both bounds of the period, in every order
RangeReqs ==
    {CostAnalyticsRequest(u, n, from, to) :
        u \in {<<>>, UserA, NotUuid}, n \in {<<>>, <<"A">>}, from \in RangeMonths, to \in RangeMonths}

\* The analytics over a period, with rows stored or not, and a driver that may fail.
NextRange ==
    \/ \E req \in RowReqs : created < MaxCreates /\ Create(1, req, TRUE)
    \/ \E req \in RangeReqs : GetCostAnalytics(1, req, TRUE)
    \/ \E from \in {Jul25, Aug25} :
          GetCostAnalytics(1, CostAnalyticsRequest(<<>>, <<>>, from, Jul25), FALSE)

SpecRange == Init /\ [][NextRange]_vars

\* Create requests, usable ones and ones with a blank name, a price of 0 and a malformed end_date
StoredCreateReqs ==
    {CreateOk(NoStr), CreateOk(Present(Aug25)), CreateOk(Present(IsoOrder)),
     CreateSubscriptionRequest(Blank, 5, UserA, Jul25, NoStr),
     CreateSubscriptionRequest(<<"A">>, 0, UserA, Jul25, NoStr)}

\* Update requests, usable ones and ones with a blank name, a price of 0 or below
\* and malformed dates next to usable fields
StoredUpdateReqs ==
    {UpdateSubscriptionRequest(Present(<<"B">>), NoInt, NoStr, NoStr),
     UpdateSubscriptionRequest(NoStr, Present(7), NoStr, NoStr),
     UpdateSubscriptionRequest(NoStr, NoInt, Present(Aug25), Present(Sep25)),
     UpdateSubscriptionRequest(Present(Blank), NoInt, NoStr, NoStr),
     UpdateSubscriptionRequest(NoStr, Present(0), NoStr, NoStr),
     UpdateSubscriptionRequest(Present(<<"B">>), Present(-1), NoStr, NoStr),
     UpdateSubscriptionRequest(Present(<<"B">>), Present(7), Present(Month13), NoStr),
     UpdateSubscriptionRequest(NoStr, Present(7), NoStr, Present(IsoOrder))}

\* Two handlers at once, over requests the service accepts and requests it rejects.
NextStored ==
    \E p \in Procs :
        \/ \E req \in StoredCreateReqs : created < MaxCreates /\ Create(p, req, TRUE)
        \/ \E n \in 1..MaxCreates, req \in StoredUpdateReqs :
              updates < MaxUpdates /\ UpdateBegin(p, IdText(n), req, TRUE)
        \/ UpdateSave(p, TRUE)
        \/ \E n \in 1..MaxCreates : Delete(p, IdText(n), TRUE)

SpecStored == Init /\ [][NextStored]_vars

(* ---------------------------- properties ------------------------------- *)
\* the first day of the month a well-formed MM-YYYY text names
MonthStart(v) == Date(Atoi(SubSeq(v, 4, 7)), Atoi(SubSeq(v, 1, 2)), 1)

WellFormedMonthYear(v) ==
    /\ Len(v) = 7
    /\ v[3] = "-"
    /\ \A i \in {1, 2, 4, 5, 6, 7} : IsDigit(v[i])
    /\ Atoi(SubSeq(v, 1, 2)) \in 1..12

\* handler p's Update writes the row in this step, and answers 200
Saved(p) == pc[p] = "update" /\ pc'[p] = "idle" /\ resp'[p].status = 200

\* the value an Update request asks a field to have, given the value it leaves otherwise
Asked(field, else) == IF field.present THEN field.v ELSE else

AskedEnd(field, else) ==
    IF ~field.present THEN else
    ELSE IF field.v = <<>> THEN Absent(ZeroTime) ELSE Present(MonthStart(field.v))

\* C1: two Updates of one identifier are not serialised: an Update may begin while
\* another is between its read and its write, and whenever an Update's write
\* succeeds the four mutable fields of the stored row become those of the copy
\* this Update fetched with its own request merged onto it, whatever was written
\* to the row since the fetch.  The last writer determines the persisted state.
C1_LastWriterWins ==
    [][\A p \in Procs :
          Saved(p) =>
              \E row \in store' :
                  /\ Rows(store', loc[p].fetched.id) = {row}
                  /\ row.service_name = Asked(loc[p].req.ServiceName, loc[p].fetched.service_name)
                  /\ row.price = Asked(loc[p].req.Price, loc[p].fetched.price)
                  /\ row.start_date =
                        (IF loc[p].req.StartDate.present THEN MonthStart(loc[p].req.StartDate.v)
                         ELSE loc[p].fetched.start_date)
                  /\ row.end_date = AskedEnd(loc[p].req.EndDate, loc[p].fetched.end_date)]_vars

\* Both Updates of one identifier answered 200; handler 1 set price to 7 and wrote
\* first, handler 2 changed only the name and wrote last: the price is again the 5
\* the row was created with.
C1_Reverted ==
    /\ pc[1] = "idle" /\ pc[2] = "idle"
    /\ resp[1].op = "Update" /\ resp[1].status = 200
    /\ resp[2].op = "Update" /\ resp[2].status = 200
    /\ resp[1].idStr = resp[2].idStr
    /\ resp[1].req.Price = Present(7)
    /\ resp[2].req.ServiceName = Present(<<"B">>) /\ ~resp[2].req.Price.present
    /\ \E row \in store :
          UuidString(row.id) = resp[1].idStr /\ row.price = 5 /\ row.service_name = <<"B">>

\* C2: when the row is still as this Update fetched it (nothing else changed it in
\* between), a successful Update leaves each of service_name, price, start_date
\* and end_date whose request field is absent as it was stored before; and no
\* step ever changes the user_id or created_at a stored identifier was created with.
C2_Frame ==
    [][/\ \A p \in Procs :
            (Saved(p) /\ Rows(store, loc[p].fetched.id) = {loc[p].fetched}) =>
                \E old \in store, row \in store' :
                    /\ old.id = loc[p].fetched.id
                    /\ Rows(store', old.id) = {row}
                    /\ ~loc[p].req.ServiceName.present => row.service_name = old.service_name
                    /\ ~loc[p].req.Price.present => row.price = old.price
                    /\ ~loc[p].req.StartDate.present => row.start_date = old.start_date
                    /\ ~loc[p].req.EndDate.present => row.end_date = old.end_date
       /\ \A old \in store, row \in store' :
            old.id = row.id => row.user_id = old.user_id /\ row.created_at = old.created_at
       /\ \A row \in store' :
            Rows(store, row.id) = {} =>
                row.id = GenId(created') /\ row.created_at = created' /\ Rows(store', row.id) = {row}]_vars

\* The only Update so far had only price present: price is 7, and the name, the
\* start date and the end date are those of the Create request.
C2_PriceOnly ==
    /\ updates = 1
    /\ resp[1].op = "Update" /\ resp[1].status = 200
    /\ resp[1].req = UpdateSubscriptionRequest(NoStr, Present(7), NoStr, NoStr)
    /\ \E row \in store :
          /\ UuidString(row.id) = resp[1].idStr
          /\ row.price = 7 /\ row.service_name = <<"A">>
          /\ row.start_date = Date(2025, 7, 1) /\ row.end_date = Present(Date(2025, 8, 1))
          /\ row.user_id = UuidParse(UserA).u /\ row.created_at = 1

\* C3: after a successful Update (one handler at a time) the stored end_date is
\* absent if the request's end_date is present and empty, the first day of the
\* month it names if it is present and not empty, and what was stored before if
\* the request has no end_date.
C3_EndDate ==
    [][Saved(1) =>
          \E old \in store, row \in store' :
              /\ old.id = loc[1].fetched.id
              /\ Rows(store', old.id) = {row}
              /\ (loc[1].req.EndDate.present /\ loc[1].req.EndDate.v = <<>>) => ~row.end_date.present
              /\ (loc[1].req.EndDate.present /\ loc[1].req.EndDate.v # <<>>) =>
                    /\ WellFormedMonthYear(loc[1].req.EndDate.v)
                    /\ row.end_date = Present(MonthStart(loc[1].req.EndDate.v))
              /\ ~loc[1].req.EndDate.present => row.end_date = old.end_date]_vars

\* The second Update of the run, with end_date "", was answered 200: the row
\* has no end_date.
C3_Cleared ==
    /\ updates = 2 /\ pc[1] = "idle"
    /\ resp[1].op = "Update" /\ resp[1].status = 200
    /\ resp[1].req.EndDate = Present(<<>>)
    /\ \E row \in store : UuidString(row.id) = resp[1].idStr /\ ~row.end_date.present

\* a date of an Update request that is present and does not parse
MalformedDate(req) ==
    \/ req.StartDate.present /\ ~WellFormedMonthYear(req.StartDate.v)
    \/ req.EndDate.present /\ req.EndDate.v # <<>> /\ ~WellFormedMonthYear(req.EndDate.v)

DriverOk(calls) == \A i \in DOMAIN calls : calls[i].driverOk

\* C4: an Update of a stored record whose start_date or end_date is present but
\* malformed ends with a ValidationError (HTTP 400) without reaching the write:
\* the store is as it was, also when the request carries a valid name or price.
C4_MalformedDate ==
    [][(/\ pc[1] = "idle"
        /\ resp'[1].op = "Update"
        /\ MalformedDate(resp'[1].req)
        /\ UuidParse(resp'[1].idStr).ok
        /\ Rows(store, UuidParse(resp'[1].idStr).u) # {}
        /\ DriverOk(resp'[1].calls)) =>
            /\ ErrorsIs(resp'[1].err, ErrValidation)
            /\ resp'[1].status = 400
            /\ pc'[1] = "idle"
            /\ store' = store]_vars

\* The request {name B, price 7, start_date 13-2025} for a stored record was
\* answered 400 after the record was fetched; the record still has name A and price 5.
C4_Rejected ==
    /\ resp[1].op = "Update" /\ resp[1].status = 400
    /\ resp[1].req = UpdateSubscriptionRequest(Present(<<"B">>), Present(7), Present(Month13), NoStr)
    /\ resp[1].error = <<"incorrect format ", "start_date", " (expected MM-YYYY)">>
    /\ resp[1].calls # <<>>
    /\ pc[1] = "idle"
    /\ \E row \in store :
          UuidString(row.id) = resp[1].idStr /\ row.service_name = <<"A">> /\ row.price = 5

\* C5: an operation that ends with a ValidationError has made no call to the
\* persistence gateway.
C5_NoGatewayCallBeforeValidationError ==
    \A p \in Procs : ErrorsIs(resp[p].err, ErrValidation) => resp[p].calls = <<>>

\* the identifier text is a UUID that no row of st has
UnknownUuid(idStr, st) == UuidParse(idStr).ok /\ Rows(st, UuidParse(idStr).u) = {}

\* C6: for a well-formed UUID that no stored row has, GetByID, Delete, and Update
\* with a request ValidateUpdateRequest accepts, end with ErrNotFound when the
\* driver carries the call out; the answer is 404 with the body "Subscription
\* not found", and the store is unchanged.
C6_NotFound ==
    [][(/\ pc[1] = "idle"
        /\ resp'[1].op \in {"GetByID", "Delete", "Update"}
        /\ UnknownUuid(resp'[1].idStr, store)
        /\ resp'[1].op = "Update" => ValidateUpdateRequest(resp'[1].req).nil
        /\ DriverOk(resp'[1].calls)) =>
            /\ resp'[1].err = ErrNotFound
            /\ resp'[1].status = 404
            /\ resp'[1].error = <<"Subscription not found">>
            /\ pc'[1] = "idle"
            /\ store' = store]_vars

\* Delete of an identifier nothing was stored under, with a row in the store: 404.
C6_DeleteUnknown ==
    /\ resp[1].op = "Delete" /\ resp[1].idStr = UnknownId
    /\ ErrorsIs(resp[1].err, ErrNotFound)
    /\ resp[1].status = 404 /\ resp[1].error = <<"Subscription not found">>
    /\ resp[1].calls = <<Call("Delete", TRUE)>>
    /\ store # {}

Symbols(text) == {text[i] : i \in DOMAIN text}

\* C7: an error of a service operation is answered with 400 and the validation
\* message without its "validation error: " prefix exactly when it is a
\* ValidationError, with 404 and "Subscription not found" exactly when it is
\* ErrNotFound, and with 500 and "Internal Server Error" otherwise; the 404 and
\* 500 bodies hold no part of the error's own text.
C7_ErrorMapping ==
    \A p \in Procs :
        (resp[p].op # "none" /\ ~resp[p].err.nil) =>
            /\ resp[p].status \in {400, 404, 500}
            /\ resp[p].status = 400 <=> ErrorsIs(resp[p].err, ErrValidation)
            /\ resp[p].status = 400 =>
                  resp[p].error # <<>> /\ resp[p].err.msg = <<"validation error", ": ">> \o resp[p].error
            /\ resp[p].status = 404 <=>
                  (ErrorsIs(resp[p].err, ErrNotFound) /\ ~ErrorsIs(resp[p].err, ErrValidation))
            /\ resp[p].status = 404 => resp[p].error = <<"Subscription not found">>
            /\ resp[p].status = 500 => resp[p].error = <<"Internal Server Error">>
            /\ resp[p].status \in {404, 500} =>
                  Symbols(resp[p].error) \cap Symbols(resp[p].err.msg) = {}

\* A failure of the driver, wrapped by the repository and the service, was answered 500.
C7_DriverFailure ==
    /\ resp[1].status = 500 /\ resp[1].error = <<"Internal Server Error">>
    /\ "driver: bad connection" \in Symbols(resp[1].err.msg)
    /\ Len(resp[1].err.msg) > 1

\* which of the four filters are present
Presence(req) ==
    <<req.UserID # <<>>, req.ServiceName # <<>>, req.StartDateStr # <<>>, req.EndDateStr # <<>>>>

\* YYYY-MM-01 for a well-formed MM-YYYY
IsoOf(v) == SubSeq(v, 4, 7) \o <<"-">> \o SubSeq(v, 1, 2) \o <<"-", "0", "1">>

\* the present values of a request, in the order user, service, from, to
BoundValues(req) ==
    (IF req.UserID # <<>> THEN <<req.UserID>> ELSE <<>>)
    \o (IF req.ServiceName # <<>> THEN <<req.ServiceName>> ELSE <<>>)
    \o (IF req.StartDateStr # <<>> THEN <<IsoOf(req.StartDateStr)>> ELSE <<>>)
    \o (IF req.EndDateStr # <<>> THEN <<IsoOf(req.EndDateStr)>> ELSE <<>>)

\* the numbers of the placeholders of a statement text, in the order they occur
Placeholders(text) ==
    LET d == SelectSeq(text, IsDigit) IN [i \in 1..Len(d) |-> DigitVal(d[i])]

StatementWords ==
    Symbols(BaseQuery) \cup {KwUser, KwService, KwBetween, KwBetweenAnd, KwFrom, KwTo}
    \cup Symbols(DigitChars)

\* the answer r is that of an analytics request that reached the gateway
Queried(r) == r.op = "GetCostAnalytics" /\ r.calls # <<>>

\* C8: the statement GetTotalCost sends is made of the fixed words of the query
\* and placeholders only; the placeholders are $1..$n in this order, the n bound
\* arguments are the present filter values in the same order, and two requests
\* with the same filters present give the same text whatever the values.
C8_ParametersBound ==
    [][Queried(resp'[1]) =>
          /\ Symbols(resp'[1].text) \subseteq StatementWords
          /\ Placeholders(resp'[1].text) = [i \in 1..Len(resp'[1].args) |-> i]
          /\ resp'[1].args = BoundValues(resp'[1].req)
          /\ (Queried(resp[1]) /\ Presence(resp[1].req) = Presence(resp'[1].req)) =>
                resp'[1].text = resp[1].text]_vars

\* A service name with a quote and a statement separator in it went out as
\* argument $1 of the service_name clause.
C8_QuoteIsBound ==
    /\ Queried(resp[1])
    /\ resp[1].req.ServiceName = Inject
    /\ resp[1].text = BaseQuery \o <<KwService, "1">>
    /\ resp[1].args = <<Inject>>
    /\ resp[1].status = 200

\* the row satisfies every filter the request has
Matches(row, req) ==
    /\ req.UserID # <<>> => row.user_id = UuidParse(req.UserID).u
    /\ req.ServiceName # <<>> => row.service_name = req.ServiceName
    /\ req.StartDateStr # <<>> =>
          DateOrd(row.start_date) >= DateOrd(MonthStart(req.StartDateStr))
    /\ req.EndDateStr # <<>> =>
          DateOrd(row.start_date) <= DateOrd(MonthStart(req.EndDateStr))

\* the gateway call of the answer r was carried out by the driver
Executed(r) == r.op = "GetCostAnalytics" /\ r.calls = <<Call("GetTotalCost", TRUE)>>

\* C9: the total of an analytics request the driver carried out is the sum of
\* price over exactly the stored rows that satisfy every present filter (user_id
\* and service_name equal, start_date within the inclusive bounds given); with
\* no filter it is the sum over all rows.
C9_TotalOfMatchingRows ==
    Executed(resp[1]) =>
        /\ resp[1].err.nil
        /\ resp[1].total = SumPrice({row \in store : Matches(row, resp[1].req)})

\* With all four filters present, one of two stored rows was summed.
C9_ProperSubset ==
    /\ Executed(resp[1])
    /\ Presence(resp[1].req) = <<TRUE, TRUE, TRUE, TRUE>>
    /\ Cardinality(store) = 2
    /\ resp[1].total > 0 /\ resp[1].total < SumPrice(store)

\* C10: when no stored row satisfies the filter (the store may be empty), an
\* analytics request the driver carried out is answered with total 0 and no error.
C10_NoRowsIsZero ==
    (Executed(resp[1]) /\ ~\E row \in store : Matches(row, resp[1].req)) =>
        /\ resp[1].total = 0
        /\ resp[1].err = NoErr
        /\ resp[1].status = 200

\* Rows are stored, none of them is of the user asked for: total 0, status 200.
C10_NoMatch ==
    /\ Executed(resp[1])
    /\ store # {}
    /\ resp[1].req.UserID # <<>>
    /\ \A row \in store : ~Matches(row, resp[1].req)
    /\ resp[1].total = 0 /\ resp[1].status = 200 /\ resp[1].err.nil

\* the text is empty or made of white space only
AllWhite(text) == \A i \in DOMAIN text : text[i] \in {" ", "\t", "\n", "\r"}

\* the message of the first check of ValidateCreate that fails, <<>> if none does
FirstCreateFailure(req) ==
    IF AllWhite(req.ServiceName) THEN <<"service_name is required">>
    ELSE IF req.Price <= 0 THEN <<"price must be greater than zero">>
    ELSE IF AllWhite(req.UserID) THEN <<"user_id is required">>
    ELSE IF AllWhite(req.StartDate) THEN <<"start_date is required">>
    ELSE <<>>

\* C11: ValidateCreateRequest reports one failure, that of the first failing check
\* in the order service_name (empty or white space), price (<= 0), user_id
\* (empty or white space), start_date (empty or white space), and returns nil
\* exactly when no check fails.
C11_FirstFailure ==
    resp[1].op = "ValidateCreateRequest" =>
        IF FirstCreateFailure(resp[1].req) = <<>> THEN resp[1].err = NoErr
        ELSE /\ ErrorsIs(resp[1].err, ErrValidation)
             /\ resp[1].err.msg = <<"validation error", ": ">> \o FirstCreateFailure(resp[1].req)

\* A request with a blank service name, price 0, no user and no start date was
\* answered with the service_name message alone.
C11_AllFailNameReported ==
    /\ resp[1].op = "ValidateCreateRequest"
    /\ resp[1].req = CreateSubscriptionRequest(<<" ", "\t">>, 0, <<>>, <<>>, NoStr)
    /\ resp[1].err.msg = <<"validation error", ": ", "service_name is required">>

\* the four ways in which ValidateUpdate fails, read off the request
UpdateRejected(req) ==
    \/ ~req.ServiceName.present /\ ~req.Price.present /\ ~req.StartDate.present /\ ~req.EndDate.present
    \/ req.ServiceName.present /\ AllWhite(req.ServiceName.v)
    \/ req.Price.present /\ req.Price.v <= 0
    \/ req.StartDate.present /\ AllWhite(req.StartDate.v)

\* C12: ValidateUpdateRequest fails exactly when all four fields are absent, or
\* service_name is present but empty or white space, or price is present and <= 0,
\* or start_date is present but empty or white space; in particular the request
\* whose only field is an empty end_date passes.  An Update whose request has no
\* field is rejected, for any identifier and any state of the database, before
\* the record is fetched or changed.
C12_UpdateValidation ==
    [][/\ resp'[1].op = "ValidateUpdateRequest" =>
            /\ resp'[1].err.nil <=> ~UpdateRejected(resp'[1].req)
            /\ ~resp'[1].err.nil => ErrorsIs(resp'[1].err, ErrValidation)
            /\ resp'[1].req = UpdateSubscriptionRequest(NoStr, NoInt, NoStr, Present(<<>>))
                  => resp'[1].err = NoErr
       /\ (resp'[1].op = "Update" /\ resp'[1].req = NoReq) =>
            /\ ErrorsIs(resp'[1].err, ErrValidation)
            /\ resp'[1].status = 400
            /\ resp'[1].calls = <<>>
            /\ store' = store
            /\ pc'[1] = "idle"]_vars

\* An Update with no field, for the identifier of a stored subscription, was
\* answered 400 without any call to the repository.
C12_NoFieldOnStored ==
    /\ resp[1].op = "Update"
    /\ resp[1].req = NoReq
    /\ Rows(store, UuidParse(resp[1].idStr).u) # {}
    /\ resp[1].status = 400
    /\ resp[1].error = <<"at least one field must be provided for update">>
    /\ resp[1].calls = <<>>

\* C13: ParseMonthYear succeeds exactly on two digits, a hyphen and four digits
\* whose first two digits are a month 01..12, and then returns the first day of
\* that month of that year; on any other text it returns the ValidationError
\* "incorrect format <fieldName> (expected MM-YYYY)".
C13_ParseMonthYear ==
    resp[1].op = "ParseMonthYear" =>
        IF WellFormedMonthYear(resp[1].idStr)
        THEN /\ resp[1].err = NoErr
             /\ resp[1].args = <<MonthStart(resp[1].idStr)>>
        ELSE /\ ErrorsIs(resp[1].err, ErrValidation)
             /\ resp[1].err.msg = <<"validation error", ": ", "incorrect format ">>
                                    \o resp[1].text \o <<" (expected MM-YYYY)">>

\* 13-2025 was rejected as an end_date.
C13_Month13 ==
    /\ resp[1].op = "ParseMonthYear"
    /\ resp[1].idStr = Month13
    /\ resp[1].err.msg = <<"validation error", ": ", "incorrect format ", "end_date",
                           " (expected MM-YYYY)">>

\* 12-0000 was accepted as the first of December of the year 0.
C13_YearZero ==
    /\ resp[1].op = "ParseMonthYear"
    /\ resp[1].idStr = <<"1", "2", "-", "0", "0", "0", "0">>
    /\ resp[1].err = NoErr
    /\ resp[1].args = <<Date(0, 12, 1)>>

\* the number of the month a well-formed MM-YYYY text names
MonthIndex(v) == Atoi(SubSeq(v, 4, 7)) * 12 + Atoi(SubSeq(v, 1, 2))

RangeError == <<"validation error", ": ", "start_date_from cannot be after start_date_to">>

\* C14: with both bounds present and well formed, GetCostAnalytics returns the
\* ValidationError "start_date_from cannot be after start_date_to" exactly when
\* the month of start_date_from is strictly after the month of start_date_to,
\* and then sends no query; equal bounds are accepted.
C14_Range ==
    \A p \in Procs :
        (/\ resp[p].op = "GetCostAnalytics"
         /\ WellFormedMonthYear(resp[p].req.StartDateStr)
         /\ WellFormedMonthYear(resp[p].req.EndDateStr)) =>
            LET reversed == MonthIndex(resp[p].req.StartDateStr) > MonthIndex(resp[p].req.EndDateStr)
                userOk == resp[p].req.UserID = <<>> \/ UuidParse(resp[p].req.UserID).ok
            IN /\ resp[p].err.msg = RangeError <=> reversed
               /\ reversed => /\ ErrorsIs(resp[p].err, ErrValidation)
                               /\ resp[p].status = 400
                               /\ resp[p].calls = <<>>
                               /\ resp[p].text = <<>>
               /\ (~reversed /\ userOk) => /\ Len(resp[p].calls) = 1
                                            /\ resp[p].calls[1].call = "GetTotalCost"
                                            /\ resp[p].text # <<>>
                                            /\ DriverOk(resp[p].calls) => resp[p].status = 200

\* With a row stored, the period 08-2025 .. 07-2025 was refused with 400 and no
\* query was sent.
C14_Reversed ==
    /\ store # {}
    /\ resp[1].op = "GetCostAnalytics"
    /\ resp[1].req = CostAnalyticsRequest(UserA, <<"A">>, Aug25, Jul25)
    /\ resp[1].status = 400
    /\ resp[1].error = <<"start_date_from cannot be after start_date_to">>
    /\ resp[1].calls = <<>>

\* handler p's Delete of a well-formed identifier is carried out in this step
\* (a repeated Delete with the same answer leaves every variable as it was)
DeleteStep(p) ==
    /\ resp'[p].op = "Delete"
    /\ resp[p].op = "Delete" => resp'[p] # resp[p]
    /\ UuidParse(resp'[p].idStr).ok
    /\ DriverOk(resp'[p].calls)

\* C15 as stated: the service's Delete reports "nothing deleted" as false with
\* no error, and the handler turns the false into the 404; so every 404 of a
\* Delete is answered on a nil error.
C15_FalseWithoutError ==
    \A p \in Procs : (resp[p].op = "Delete" /\ resp[p].status = 404) => resp[p].err.nil

\* C15, amended: the repository's Delete reports "nothing deleted" as false
\* with no error; the service's Delete turns that false into ErrNotFound (false
\* together with the error), and the handler answers 404 through the error
\* mapping it uses for every operation.  A 404 of a Delete always carries
\* ErrNotFound, a 204 always a nil error.
C15_NotFoundFromService ==
    [][\A p \in Procs :
          /\ DeleteStep(p) /\ Rows(store, UuidParse(resp'[p].idStr).u) = {} =>
                LET g == RepoDelete(store, UuidParse(resp'[p].idStr).u, TRUE)
                    r == SvcDelete(store, resp'[p].idStr, TRUE)
                IN /\ ~g.deleted /\ g.err = NoErr
                   /\ ~r.deleted /\ r.err = ErrNotFound
                   /\ resp'[p].err = ErrNotFound
                   /\ resp'[p].status = 404
                   /\ resp'[p].error = <<"Subscription not found">>
                   /\ RespondServiceError(resp'[p].err) = [status |-> 404,
                                                           error |-> <<"Subscription not found">>]
                   /\ store' = store
          /\ resp'[p].op = "Delete" =>
                /\ resp'[p].status = 404 <=> resp'[p].err = ErrNotFound
                /\ resp'[p].status = 204 <=> resp'[p].err.nil]_vars

\* The subscription was created and deleted, and a second Delete of its
\* identifier ended with ErrNotFound and the answer 404.
C15_DeletedTwice ==
    /\ created = 1
    /\ store = {}
    /\ resp[1].op = "Delete"
    /\ resp[1].idStr = IdText(1)
    /\ resp[1].err = ErrNotFound
    /\ resp[1].status = 404

\* handler p's Update fetched its record and then found no record to write
NoRecordToWrite(p) ==
    /\ resp[p].op = "Update"
    /\ pc[p] = "idle"
    /\ Len(resp[p].calls) = 2
    /\ DriverOk(resp[p].calls)
    /\ ErrorsIs(resp[p].err, ErrNoRows)

\* C16: in every interleaving of an Update with a Delete of the same
\* identifier, an Update that finds no record to write ends as not-found and
\* is answered 404, never 500.
C16_RaceEndsNotFound ==
    \A p \in Procs :
        NoRecordToWrite(p) => /\ ErrorsIs(resp[p].err, ErrNotFound)
                              /\ resp[p].status = 404

\* the identifiers given out so far: Create inserts the row in the step that
\* gives the identifier out, so one of them without a row is a deleted one
Issued == {GenId(n) : n \in 1..created}

\* C17: a deletion is not undone under any interleaving: an identifier whose
\* record was deleted has no record after any later step, be it the write of
\* an Update that fetched the record before the Delete, or a Create, Update or
\* Delete that starts afterwards; and while a successful Delete is a
\* handler's last answer, its identifier has no record.
C17_DeletedStaysDeleted ==
    [][/\ \A id \in Issued : Rows(store, id) = {} => Rows(store', id) = {}
       /\ \A r \in store' : r.id \in Issued \/ (created' = created + 1 /\ r.id = GenId(created'))
       /\ \A p \in Procs :
             (resp'[p].op = "Delete" /\ resp'[p].status = 204) =>
                 Rows(store', UuidParse(resp'[p].idStr).u) = {}]_vars

\* One handler fetched the record for an Update, the other deleted it and was
\* answered 204, then the first handler's write ran: the record is still gone.
C17_WriteAfterDelete ==
    \E p, q \in Procs :
        /\ p # q
        /\ resp[q].op = "Delete" /\ resp[q].status = 204 /\ resp[q].idStr = IdText(1)
        /\ NoRecordToWrite(p) /\ resp[p].idStr = IdText(1)
        /\ created = 1
        /\ Rows(store, GenId(1)) = {}

\* a time is the first day of a month
FirstOfMonth(t) == t.d = 1 /\ t.m \in 1..12

\* C18: after any sequence of Create, Update and Delete through the service,
\* one at a time or interleaved, every stored subscription has a price above
\* 0, a service name that is not blank, a start_date on the first day of a
\* month, and an end_date that is absent or on the first day of a month.
C18_StoredRecords ==
    \A r \in store :
        /\ r.price > 0
        /\ ~AllWhite(r.service_name)
        /\ FirstOfMonth(r.start_date)
        /\ r.end_date.present => FirstOfMonth(r.end_date.v)

\* A stored subscription was updated to price 7, and the last answer to a
\* handler is the 400 to an Update of it that asked for price 0.
C18_PriceZeroRefused ==
    \E p \in Procs, r \in store :
        /\ r.price = 7
        /\ resp[p].op = "Update"
        /\ resp[p].idStr = UuidString(r.id)
        /\ resp[p].req = UpdateSubscriptionRequest(NoStr, Present(0), NoStr, NoStr)
        /\ resp[p].status = 400

====
